---- MODULE Spec2Model ----
(***************************************************************************)
(* Model of typescript-generator/index.ts: the catalog walker that renders *)
(* every type definition of the loaded specification into one TypeScript   *)
(* namespace and writes it to output/typescript/types.ts.                  *)
(*                                                                         *)
(* Text is a sequence of one-character strings, so that slice, join,       *)
(* includes and the regular expression of cleanPropertyName act on         *)
(* characters as they do in the source.                                    *)
(***************************************************************************)
EXTENDS Integers, Sequences, FiniteSets, TLC

VARIABLES
  catalog,          \* specification.types, read-only for the run
  ENUM_AS_UNION,    \* process.env.ENUM_AS_UNION
  pc,               \* position of the script: walk, trim, wrap, write, done
  idx,              \* index of the next catalog entry of the for-of loop
  typeDefinitions,  \* the growing output buffer
  emitted,          \* the appends made by the loop: <<[type, decl], ...>>
  writes,           \* the texts written to types.ts, in order
  expression,       \* the argument of a call of unwrapType on its own
  returned          \* the outcome of that call: a string or a TypeError

vars ==
  <<catalog, ENUM_AS_UNION, pc, idx, typeDefinitions, emitted, writes,
    expression, returned>>

----------------------------------------------------------------------------
(* Text primitives *)

\* A string literal of the source as text.
Chars(s) == [i \in 1..Len(s) |-> SubSeq(s, i, i)]

\* String.prototype.slice(0, -n)
SliceEnd(text, n) ==
  IF Len(text) > n THEN SubSeq(text, 1, Len(text) - n) ELSE <<>>

\* Array.prototype.join
RECURSIVE join(_, _)
join(texts, sep) ==
  IF Len(texts) = 0 THEN <<>>
  ELSE IF Len(texts) = 1 THEN texts[1]
  ELSE texts[1] \o sep \o join(Tail(texts), sep)

\* String.prototype.includes for a one-character needle
includes(text, c) == \E i \in 1..Len(text) : text[i] = c

\* String.prototype.endsWith
endsWith(text, suffix) ==
  /\ Len(text) >= Len(suffix)
  /\ SubSeq(text, Len(text) - Len(suffix) + 1, Len(text)) = suffix

Digits == {"0", "1", "2", "3", "4", "5", "6", "7", "8", "9"}

Letters ==
  {"a", "b", "c", "d", "e", "f", "g", "h", "i", "j", "k", "l", "m",
   "n", "o", "p", "q", "r", "s", "t", "u", "v", "w", "x", "y", "z",
   "A", "B", "C", "D", "E", "F", "G", "H", "I", "J", "K", "L", "M",
   "N", "O", "P", "Q", "R", "S", "T", "U", "V", "W", "X", "Y", "Z"}

\* The regular expression class \w; \W is its complement.
WordChars == Letters \cup Digits \cup {"_"}

----------------------------------------------------------------------------
(* Values of the domain model *)

\* The JavaScript value undefined.
Undefined == [kind |-> "undefined"]

\* A JavaScript array, told apart from undefined by Array.isArray.
Arr(items) == [kind |-> "Array", items |-> items]

IsArray(x) == x.kind = "Array"

\* Truthiness of an environment value: undefined and '' are falsy.
Truthy(v) == v.kind = "string" /\ v.value # <<>>

EnvString(s) == [kind |-> "string", value |-> Chars(s)]

\* Type expressions
Type(name, closedGenerics) ==
  [kind |-> "Type", name |-> Chars(name), closedGenerics |-> closedGenerics]

ArrayOf(of) == [kind |-> "ArrayOf", of |-> of]

Dictionary(key, value) == [kind |-> "Dictionary", key |-> key, value |-> value]

SingleKeyDictionary(value) == [kind |-> "SingleKeyDictionary", value |-> value]

UnionOf(items) == [kind |-> "UnionOf", items |-> items]

ImplementsReference(name, closedGenerics) ==
  [kind |-> "ImplementsReference", type |-> [name |-> Chars(name)],
   closedGenerics |-> closedGenerics]

\* Properties and enum members
Property(name, type, nullable) ==
  [name |-> name, type |-> type, nullable |-> nullable]

EnumMember(name, stringRepresentation) ==
  [name |-> name, stringRepresentation |-> stringRepresentation]

\* Type definitions
StringAlias(name) == [kind |-> "StringAlias", name |-> Chars(name)]

NumberAlias(name) == [kind |-> "NumberAlias", name |-> Chars(name)]

UnionAlias(name, wraps) ==
  [kind |-> "UnionAlias", name |-> Chars(name), wraps |-> wraps]

Enum(name, members) ==
  [kind |-> "Enum", name |-> Chars(name), members |-> members]

Interface(name, openGenerics, inherits, inheritsFromUnresolved, properties) ==
  [kind |-> "Interface", name |-> Chars(name), openGenerics |-> openGenerics,
   inherits |-> inherits, inheritsFromUnresolved |-> inheritsFromUnresolved,
   properties |-> properties]

RequestInterface(name, openGenerics, inherits, inheritsFromUnresolved, path, queryParameters, body) ==
  [kind |-> "RequestInterface", name |-> Chars(name),
   openGenerics |-> openGenerics, inherits |-> inherits,
   inheritsFromUnresolved |-> inheritsFromUnresolved,
   properties |-> <<>>,
   path |-> path, queryParameters |-> queryParameters, body |-> body]

\* A type definition of a class the walker does not know.
OtherDeclaration(name) == [kind |-> "TypeDeclaration", name |-> Chars(name)]

\* type instanceof Domain.<cls>; RequestInterface specializes Interface.
InstanceOf(type, cls) ==
  \/ type.kind = cls
  \/ cls = "Interface" /\ type.kind = "RequestInterface"

----------------------------------------------------------------------------
(* Configuration of the generator *)

stableApis ==
  {Chars("IndexRequest"), Chars("IndexResponse"),
   Chars("CreateRequest"), Chars("CreateResponse"),
   Chars("DeleteRequest"), Chars("DeleteResponse"),
   Chars("UpdateRequest"), Chars("UpdateResponse"),
   Chars("GetRequest"), Chars("GetResponse")}

\* skipInterface with its second entry forgotten.
skipInterfaceOnlyResponseBase == {Chars("ResponseBase")}

skipInterface == {Chars("ResponseBase"), Chars("DictionaryResponseBase")}

----------------------------------------------------------------------------
(* Type expression resolver *)

\* unwrapType parameterizing an ImplementsReference of one closed generic.
RECURSIVE unwrapTypeGenericsOfOne(_)
unwrapTypeGenericsOfOne(type) ==
  IF type.kind = "ArrayOf" THEN
    unwrapTypeGenericsOfOne(type.of) \o Chars("[]")
  ELSE IF type.kind = "Dictionary" THEN
    Chars("Record<") \o unwrapTypeGenericsOfOne(type.key) \o Chars(", ")
      \o unwrapTypeGenericsOfOne(type.value) \o Chars(">")
  ELSE IF type.kind = "SingleKeyDictionary" THEN
    Chars("Record<string, ") \o unwrapTypeGenericsOfOne(type.value) \o Chars(">")
  ELSE IF type.kind = "UnionOf" THEN
    join([i \in 1..Len(type.items) |-> unwrapTypeGenericsOfOne(type.items[i])], Chars(" | "))
  ELSE IF type.kind = "ImplementsReference" THEN
    IF type.type.name = Chars("DictionaryResponseBase") THEN
      Chars("Record<")
        \o join([i \in 1..Len(type.closedGenerics.items) |->
                   unwrapTypeGenericsOfOne(type.closedGenerics.items[i])], Chars(", "))
        \o Chars(">")
    ELSE IF IsArray(type.closedGenerics) /\ Len(type.closedGenerics.items) > 0 THEN
      type.type.name \o Chars("<")
        \o join([i \in 1..Len(type.closedGenerics.items) |->
                   unwrapTypeGenericsOfOne(type.closedGenerics.items[i])], Chars(", "))
        \o Chars(">")
    ELSE type.type.name
  ELSE
    IF IsArray(type.closedGenerics) /\ Len(type.closedGenerics.items) > 0 THEN
      type.name \o Chars("<")
        \o join([i \in 1..Len(type.closedGenerics.items) |->
                   unwrapTypeGenericsOfOne(type.closedGenerics.items[i])], Chars(", "))
        \o Chars(">")
    ELSE type.name

RECURSIVE unwrapType(_)
unwrapType(type) ==
  IF type.kind = "ArrayOf" THEN
    unwrapType(type.of) \o Chars("[]")
  ELSE IF type.kind = "Dictionary" THEN
    Chars("Record<") \o unwrapType(type.key) \o Chars(", ")
      \o unwrapType(type.value) \o Chars(">")
  ELSE IF type.kind = "SingleKeyDictionary" THEN
    Chars("Record<string, ") \o unwrapType(type.value) \o Chars(">")
  ELSE IF type.kind = "UnionOf" THEN
    join([i \in 1..Len(type.items) |-> unwrapType(type.items[i])], Chars(" | "))
  ELSE IF type.kind = "ImplementsReference" THEN
    IF type.type.name = Chars("DictionaryResponseBase") THEN
      \* closedGenerics.map is called without the Array.isArray guard of the
      \* next branch; every ImplementsReference of Catalogs carries an array.
      Chars("Record<")
        \o join([i \in 1..Len(type.closedGenerics.items) |->
                   unwrapType(type.closedGenerics.items[i])], Chars(", "))
        \o Chars(">")
    ELSE IF IsArray(type.closedGenerics) /\ Len(type.closedGenerics.items) > 1 THEN
      type.type.name \o Chars("<")
        \o join([i \in 1..Len(type.closedGenerics.items) |->
                   unwrapType(type.closedGenerics.items[i])], Chars(", "))
        \o Chars(">")
    ELSE type.type.name
  ELSE
    IF IsArray(type.closedGenerics) /\ Len(type.closedGenerics.items) > 0 THEN
      type.name \o Chars("<")
        \o join([i \in 1..Len(type.closedGenerics.items) |->
                   unwrapType(type.closedGenerics.items[i])], Chars(", "))
        \o Chars(">")
    ELSE type.name

\* Whether the call of unwrapType ends in a TypeError: closedGenerics.map of
\* the DictionaryResponseBase branch reads a property of undefined when the
\* list is absent, the only member access of the function that is neither
\* guarded by Array.isArray nor on a field every variant carries.
RECURSIVE unwrapTypeThrows(_)
unwrapTypeThrows(type) ==
  IF type.kind = "ArrayOf" THEN
    unwrapTypeThrows(type.of)
  ELSE IF type.kind = "Dictionary" THEN
    unwrapTypeThrows(type.key) \/ unwrapTypeThrows(type.value)
  ELSE IF type.kind = "SingleKeyDictionary" THEN
    unwrapTypeThrows(type.value)
  ELSE IF type.kind = "UnionOf" THEN
    \E i \in 1..Len(type.items) : unwrapTypeThrows(type.items[i])
  ELSE IF type.kind = "ImplementsReference" THEN
    IF type.type.name = Chars("DictionaryResponseBase") THEN
      IF type.closedGenerics = Undefined THEN TRUE
      ELSE \E i \in 1..Len(type.closedGenerics.items) :
             unwrapTypeThrows(type.closedGenerics.items[i])
    ELSE IF IsArray(type.closedGenerics) /\ Len(type.closedGenerics.items) > 1 THEN
      \E i \in 1..Len(type.closedGenerics.items) :
        unwrapTypeThrows(type.closedGenerics.items[i])
    ELSE FALSE
  ELSE
    IF IsArray(type.closedGenerics) /\ Len(type.closedGenerics.items) > 0 THEN
      \E i \in 1..Len(type.closedGenerics.items) :
        unwrapTypeThrows(type.closedGenerics.items[i])
    ELSE FALSE

----------------------------------------------------------------------------
(* Helpers of the declaration emitters *)

buildGeneric(type) ==
  IF IsArray(type.openGenerics) /\ Len(type.openGenerics.items) > 0
  THEN Chars("<") \o join(type.openGenerics.items, Chars(", ")) \o Chars(">")
  ELSE <<>>

\* The loop of buildInherits: every ancestor followed by ', '.
RECURSIVE inheritsLoop(_)
inheritsLoop(inherits) ==
  IF Len(inherits) = 0 THEN <<>>
  ELSE unwrapType(Head(inherits)) \o Chars(", ") \o inheritsLoop(Tail(inherits))

\* buildInherits dropping the clause whenever ResponseBase is an ancestor,
\* whatever the number of ancestors.
buildInheritsAnyLength(type) ==
  IF IsArray(type.inherits) /\ Len(type.inherits.items) > 0 THEN
    IF "ResponseBase" \in type.inheritsFromUnresolved
    THEN <<>>
    ELSE SliceEnd(Chars(" extends ") \o inheritsLoop(type.inherits.items), 2)
  ELSE <<>>

buildInherits(type) ==
  IF IsArray(type.inherits) /\ Len(type.inherits.items) > 0 THEN
    IF Len(type.inherits.items) = 1
       /\ "ResponseBase" \in type.inheritsFromUnresolved
    THEN <<>>
    ELSE SliceEnd(Chars(" extends ") \o inheritsLoop(type.inherits.items), 2)
  ELSE <<>>

\* cleanPropertyName without the test of the first character.
cleanPropertyNameNoFirstChar(name) ==
  IF includes(name, ".") \/ includes(name, "-")
  THEN Chars("\"") \o name \o Chars("\"")
  ELSE name

cleanPropertyName(name) ==
  IF \/ includes(name, ".")
     \/ includes(name, "-")
     \/ (Len(name) > 0 /\ (name[1] \in Digits \/ name[1] \notin WordChars))
  THEN Chars("\"") \o name \o Chars("\"")
  ELSE name

\* generateComment testing the Request/Response suffix before the allow-list.
generateCommentSuffixFirst(type) ==
  IF endsWith(type.name, Chars("Request"))
     \/ endsWith(type.name, Chars("Response")) THEN
    Chars("  /**\n") \o Chars("   * @description Stability: UNSTABLE\n")
      \o Chars("   */\n")
  ELSE IF type.name \in stableApis THEN
    Chars("  /**\n") \o Chars("   * @description Stability: STABLE\n")
      \o Chars("   */\n")
  ELSE <<>>

generateComment(type) ==
  IF type.name \in stableApis THEN
    Chars("  /**\n") \o Chars("   * @description Stability: STABLE\n")
      \o Chars("   */\n")
  ELSE IF endsWith(type.name, Chars("Request"))
          \/ endsWith(type.name, Chars("Response")) THEN
    Chars("  /**\n") \o Chars("   * @description Stability: UNSTABLE\n")
      \o Chars("   */\n")
  ELSE <<>>

\* One member line: indent, cleaned name, '?' if nullable, ': ', the type.
memberLine(indent, property) ==
  indent \o cleanPropertyName(property.name)
    \o (IF property.nullable THEN Chars("?") ELSE <<>>)
    \o Chars(": ") \o unwrapType(property.type) \o Chars("\n")

\* propertyLoop giving a property of undefined type a line of type any.
RECURSIVE propertyLoopNoSkip(_, _)
propertyLoopNoSkip(indent, properties) ==
  IF Len(properties) = 0 THEN <<>>
  ELSE (IF Head(properties).type = Undefined
        THEN indent \o cleanPropertyName(Head(properties).name) \o Chars(": any\n")
        ELSE memberLine(indent, Head(properties)))
       \o propertyLoopNoSkip(indent, Tail(properties))

\* A for-of loop over properties that skips those of undefined type.
RECURSIVE propertyLoop(_, _)
propertyLoop(indent, properties) ==
  IF Len(properties) = 0 THEN <<>>
  ELSE (IF Head(properties).type = Undefined THEN <<>>
        ELSE memberLine(indent, Head(properties)))
       \o propertyLoop(indent, Tail(properties))

----------------------------------------------------------------------------
(* Declaration emitters *)

buildStringAlias(type) ==
  Chars("  export type ") \o type.name \o Chars(" = string")

buildNumberAlias(type) ==
  Chars("  export type ") \o type.name \o Chars(" = number")

buildUnionAlias(type) ==
  Chars("  export type ") \o type.name \o Chars(" = ") \o unwrapType(type.wraps)

buildInterface(type) ==
  generateComment(type)
    \o Chars("  export interface ") \o type.name \o buildGeneric(type)
    \o buildInherits(type) \o Chars(" {\n")
    \o propertyLoop(Chars("    "), type.properties)
    \o Chars("  }")

\* buildRequestInterface with the query group before the path group.
buildRequestInterfaceQueryFirst(type) ==
  generateComment(type)
    \o Chars("  export interface ") \o type.name \o buildGeneric(type)
    \o buildInherits(type) \o Chars(" {\n")
    \o (IF type.queryParameters # Undefined
        THEN propertyLoop(Chars("    "), type.queryParameters.items) ELSE <<>>)
    \o (IF type.path # Undefined
        THEN propertyLoop(Chars("    "), type.path.items) ELSE <<>>)
    \o (IF type.body # Undefined THEN
          IF IsArray(type.body) THEN
            Chars("    body?: {\n")
              \o propertyLoop(Chars("      "), type.body.items)
              \o Chars("    }\n")
          ELSE Chars("    body?: ") \o unwrapType(type.body) \o Chars("\n")
        ELSE <<>>)
    \o Chars("  }")

buildRequestInterface(type) ==
  generateComment(type)
    \o Chars("  export interface ") \o type.name \o buildGeneric(type)
    \o buildInherits(type) \o Chars(" {\n")
    \o (IF type.path # Undefined
        THEN propertyLoop(Chars("    "), type.path.items) ELSE <<>>)
    \o (IF type.queryParameters # Undefined
        THEN propertyLoop(Chars("    "), type.queryParameters.items) ELSE <<>>)
    \o (IF type.body # Undefined THEN
          IF IsArray(type.body) THEN
            Chars("    body?: {\n")
              \o propertyLoop(Chars("      "), type.body.items)
              \o Chars("    }\n")
          ELSE Chars("    body?: ") \o unwrapType(type.body) \o Chars("\n")
        ELSE <<>>)
    \o Chars("  }")

\* enumAlternative quoting every representation, true and false included.
enumAlternativeAlwaysQuoted(member) ==
  Chars("\"") \o member.stringRepresentation \o Chars("\"")

\* The alternatives of an enum in literal-union mode.
enumAlternative(member) ==
  IF member.stringRepresentation = Chars("true")
     \/ member.stringRepresentation = Chars("false")
  THEN member.stringRepresentation
  ELSE Chars("\"") \o member.stringRepresentation \o Chars("\"")

\* The member loop of an enum in enumerated-constant mode.
RECURSIVE enumLoop(_)
enumLoop(members) ==
  IF Len(members) = 0 THEN <<>>
  ELSE Chars("    ") \o cleanPropertyName(Head(members).name) \o Chars(" = \"")
         \o Head(members).stringRepresentation \o Chars("\",\n")
         \o enumLoop(Tail(members))

\* buildEnum with the test of the toggle inverted.
buildEnumInverted(type, env) ==
  IF ~Truthy(env) THEN
    Chars("  export type ") \o type.name \o Chars(" = ")
      \o join([i \in 1..Len(type.members) |-> enumAlternative(type.members[i])],
              Chars(" | "))
  ELSE
    Chars("  export enum ") \o type.name \o Chars(" {\n")
      \o enumLoop(type.members) \o Chars("  }")

\* env is process.env.ENUM_AS_UNION as read by the call.
buildEnum(type, env) ==
  IF Truthy(env) THEN
    Chars("  export type ") \o type.name \o Chars(" = ")
      \o join([i \in 1..Len(type.members) |-> enumAlternative(type.members[i])],
              Chars(" | "))
  ELSE
    Chars("  export enum ") \o type.name \o Chars(" {\n")
      \o enumLoop(type.members) \o Chars("  }")

----------------------------------------------------------------------------
(* The inputs of a run: catalogs and environments *)

MaxCatalog == 3     \* entries of a catalog drawn from CatalogPool
MaxProps == 2       \* properties of an interface or of a request group
MaxMembers == 2     \* members of an enum
MaxInherits == 2    \* ancestors of an interface
MaxGenerics == 2    \* closed generics of a reference
MaxNameLen == 2     \* characters of a generated member name

SeqsUpTo(S, n) == UNION {[1..k -> S] : k \in 0..n}

\* Type expressions
tA == Type("A", Undefined)
tB == Type("B", Arr(<<>>))

Atoms == {tA, tB}

GenericLists == SeqsUpTo(Atoms, MaxGenerics)

\* References of every generic arity up to MaxGenerics.
References ==
  {Type("G", Arr(g)) : g \in GenericLists}
    \cup {ImplementsReference("Base", Arr(g)) : g \in GenericLists}
    \cup {ImplementsReference("DictionaryResponseBase", Arr(g)) : g \in GenericLists}

\* The expressions the composites are built from.
Core ==
  Atoms \cup {Type("G", Arr(<<tA>>)),
              ImplementsReference("Base", Arr(<<tA, tB>>)),
              ImplementsReference("DictionaryResponseBase", Arr(<<tA, tB>>))}

Composite ==
  {ArrayOf(e) : e \in Core}
    \cup {SingleKeyDictionary(e) : e \in Core}
    \cup {Dictionary(k, v) : k \in Atoms, v \in Core}
    \cup {UnionOf(<<a, e>>) : a \in Atoms, e \in Core}
    \cup {UnionOf(<<tA>>), UnionOf(<<tA, tB, tA>>)}

Nested ==
  {ArrayOf(e) : e \in Composite}
    \cup {UnionOf(<<a, e>>) : a \in Atoms, e \in Composite}
    \cup {Dictionary(tA, e) : e \in Composite}

TypeExpressions == Atoms \cup References \cup Composite \cup Nested

\* Member names over an alphabet with a letter, a digit, the two quoted
\* punctuation marks, the underscore and one other non-word character.
NameAlphabet == {"a", "1", ".", "-", "_", "$"}

Names == SeqsUpTo(NameAlphabet, MaxNameLen) \ {<<>>}

PropertyPool ==
  {Property(Chars("id"), tA, FALSE),
   Property(Chars("a.b"), ArrayOf(tB), TRUE),
   Property(Chars("gone"), Undefined, FALSE),
   Property(Chars("1x"), Dictionary(tA, tB), TRUE)}

\* The properties of the three groups of a request, of defined and of
\* undefined type.
PathProperties ==
  <<Property(Chars("index"), tA, FALSE), Property(Chars("type"), Undefined, FALSE),
    Property(Chars("id"), tB, TRUE), Property(Chars("routing"), tA, FALSE)>>

QueryProperties ==
  <<Property(Chars("timeout"), tB, TRUE), Property(Chars("q.x"), ArrayOf(tA), FALSE),
    Property(Chars("local"), Undefined, TRUE), Property(Chars("pretty"), tA, TRUE)>>

BodyProperties ==
  <<Property(Chars("query"), tA, TRUE), Property(Chars("b-undef"), Undefined, TRUE),
    Property(Chars("size"), tB, FALSE), Property(Chars("from"), tB, TRUE)>>

Reverse(l) == [i \in 1..Len(l) |-> l[Len(l) + 1 - i]]

\* The property lists of a group: absent, or the first k properties of the
\* group in either order, k up to MaxProps.
GroupLists(properties) ==
  LET n == IF MaxProps < Len(properties) THEN MaxProps ELSE Len(properties) IN
  {Undefined}
    \cup {Arr(SubSeq(properties, 1, k)) : k \in 0..n}
    \cup {Arr(Reverse(SubSeq(properties, 1, k))) : k \in 0..n}

Bodies == GroupLists(BodyProperties) \cup {tA, ArrayOf(tB), UnionOf(<<tA, tB>>)}

MemberPool ==
  {EnumMember(Chars("abort"), Chars("abort")),
   EnumMember(Chars("yes"), Chars("true")),
   EnumMember(Chars("no-way"), Chars("false")),
   EnumMember(Chars("true"), Chars("TRUE")),
   EnumMember(Chars("1x"), Chars("a.b"))}

\* Ancestors, and the inherits lists built from them. The loader records
\* the names of the extended classes as the keys of inheritsFromUnresolved.
Ancestors ==
  {ImplementsReference("ResponseBase", Arr(<<>>)),
   ImplementsReference("DictionaryResponseBase", Arr(<<tA, tB>>)),
   ImplementsReference("Base", Arr(<<>>)),
   ImplementsReference("Gen", Arr(<<tA, tB>>))}

AncestorKey(a) ==
  IF a.type.name = Chars("ResponseBase") THEN "ResponseBase"
  ELSE IF a.type.name = Chars("DictionaryResponseBase") THEN "DictionaryResponseBase"
  ELSE IF a.type.name = Chars("Base") THEN "Base"
  ELSE "Gen"

Heritage ==
  {[inherits |-> Undefined, inheritsFromUnresolved |-> {}]}
    \cup {[inherits |-> Arr(l),
           inheritsFromUnresolved |-> {AncestorKey(l[i]) : i \in 1..Len(l)}]
            : l \in SeqsUpTo(Ancestors, MaxInherits)}

OpenGenerics ==
  {Undefined, Arr(<<>>), Arr(<<Chars("T")>>), Arr(<<Chars("T"), Chars("U")>>)}

\* The names a definition is given: a plain one and the two excluded ones.
DefinitionNames == {"Box", "ResponseBase", "DictionaryResponseBase"}

\* Names told apart by the stability annotation: in the allow-list, ending
\* in Request or Response without being in it, and neither.
StabilityNames == {"IndexResponse", "SearchRequest", "Response", "Requester"}

\* A definition of every variant under each of these names.
StabilityDefinitions ==
  {StringAlias(n) : n \in StabilityNames}
    \cup {NumberAlias(n) : n \in StabilityNames}
    \cup {UnionAlias(n, ArrayOf(tA)) : n \in StabilityNames}
    \cup {Enum(n, <<EnumMember(Chars("abort"), Chars("abort"))>>) : n \in StabilityNames}
    \cup {Interface(n, Arr(<<Chars("T")>>), Undefined, {},
                    <<Property(Chars("id"), tA, FALSE)>>) : n \in StabilityNames}
    \cup {RequestInterface(n, Undefined, Undefined, {}, Undefined,
                           Arr(<<Property(Chars("timeout"), tB, TRUE)>>), Undefined)
            : n \in StabilityNames}

Interfaces ==
  {Interface("Box", Arr(<<>>), Arr(<<>>), {}, l) : l \in SeqsUpTo(PropertyPool, MaxProps)}
    \cup {Interface(n, Undefined, Undefined, {}, <<Property(Chars("id"), tA, FALSE)>>)
            : n \in DefinitionNames}
    \cup {Interface("Named", Undefined, Arr(<<>>), {},
                    <<Property(n, tA, FALSE), Property(Chars("last"), tB, TRUE)>>)
            : n \in Names}
    \cup {Interface("Box", g, Undefined, {}, <<>>) : g \in OpenGenerics}
    \cup {Interface("Box", Arr(<<Chars("T")>>), h.inherits, h.inheritsFromUnresolved,
                    <<Property(Chars("items"), ArrayOf(Type("T", Undefined)), FALSE)>>)
            : h \in Heritage}

RequestInterfaces ==
  {RequestInterface("SearchRequest", Arr(<<>>), Arr(<<>>), {}, p, q, b)
     : p \in GroupLists(PathProperties), q \in GroupLists(QueryProperties), b \in Bodies}
    \cup {RequestInterface(n, Undefined, Undefined, {},
                           Arr(<<Property(Chars("index"), tA, FALSE)>>), Undefined, Undefined)
            : n \in DefinitionNames}
    \cup {RequestInterface("IndexRequest", g, Undefined, {}, Undefined, Undefined, tA)
            : g \in OpenGenerics}
    \cup {RequestInterface("Scroll", Arr(<<Chars("T")>>), h.inherits, h.inheritsFromUnresolved,
                           Undefined, Undefined, Undefined)
            : h \in Heritage}
    \cup {RequestInterface("GetRequest", Undefined, Undefined, {},
                           Arr(<<Property(n, tA, FALSE)>>),
                           Arr(<<Property(n, tB, TRUE)>>),
                           Arr(<<Property(n, tA, TRUE)>>))
            : n \in Names}

Enums ==
  {Enum("Conflicts", l) : l \in SeqsUpTo(MemberPool, MaxMembers)}
    \cup {Enum(n, <<EnumMember(Chars("abort"), Chars("abort"))>>) : n \in DefinitionNames}
    \cup {Enum("Keys", <<EnumMember(n, Chars("v"))>>) : n \in Names}

Aliases ==
  {StringAlias(n) : n \in DefinitionNames}
    \cup {NumberAlias(n) : n \in DefinitionNames}
    \cup {UnionAlias(n, UnionOf(<<tA, tB>>)) : n \in DefinitionNames}
    \cup {UnionAlias("Wrapped", e) : e \in TypeExpressions}

Others == {OtherDeclaration(n) : n \in DefinitionNames}

TypeDefinitions ==
  Aliases \cup Enums \cup Interfaces \cup RequestInterfaces \cup Others
    \cup StabilityDefinitions

\* The entries of the catalogs of more than one entry.
CatalogPool ==
  {StringAlias("Id"),
   Enum("Conflicts", <<EnumMember(Chars("abort"), Chars("abort")),
                       EnumMember(Chars("proceed"), Chars("proceed"))>>),
   Interface("Box", Arr(<<Chars("T")>>), Arr(<<>>), {},
             <<Property(Chars("items"), ArrayOf(Type("T", Undefined)), FALSE)>>),
   RequestInterface("SearchRequest", Undefined, Undefined, {},
                    Arr(<<Property(Chars("index"), tA, FALSE)>>), Undefined,
                    Arr(<<Property(Chars("query"), tB, TRUE)>>)),
   OtherDeclaration("Odd"),
   StringAlias("ResponseBase"),
   Interface("DictionaryResponseBase", Arr(<<Chars("K"), Chars("V")>>), Undefined, {}, <<>>)}

Catalogs ==
  SeqsUpTo(CatalogPool, MaxCatalog) \cup {<<t>> : t \in TypeDefinitions}

EnvValues == {Undefined, EnvString(""), EnvString("1")}

----------------------------------------------------------------------------
(* The script *)

Init ==
  /\ catalog \in Catalogs
  /\ ENUM_AS_UNION \in EnvValues
  /\ pc = "walk"
  /\ idx = 1
  /\ typeDefinitions = Chars("declare namespace T {\n")
  /\ emitted = <<>>
  /\ writes = <<>>
  /\ expression = Undefined
  /\ returned = [kind |-> "idle"]

\* Append2 putting the new declaration in front of the earlier ones.
Append2InFront(type, decl) ==
  /\ typeDefinitions' =
       Chars("declare namespace T {\n") \o decl \o Chars("\n\n")
         \o SubSeq(typeDefinitions, Len(Chars("declare namespace T {\n")) + 1,
                   Len(typeDefinitions))
  /\ emitted' = <<[type |-> type, decl |-> decl]>> \o emitted
  /\ idx' = idx + 1
  /\ UNCHANGED <<expression, returned, catalog, ENUM_AS_UNION, pc, writes>>

\* Append2 that also writes the buffer to the file at every iteration.
Append2AndWrite(type, decl) ==
  /\ typeDefinitions' = typeDefinitions \o decl \o Chars("\n\n")
  /\ emitted' = Append(emitted, [type |-> type, decl |-> decl])
  /\ idx' = idx + 1
  /\ writes' = Append(writes, typeDefinitions')
  /\ UNCHANGED <<expression, returned, catalog, ENUM_AS_UNION, pc>>

\* Append2 that takes the entry out of the catalog as it renders it.
Append2Shifting(type, decl) ==
  /\ typeDefinitions' = typeDefinitions \o decl \o Chars("\n\n")
  /\ emitted' = Append(emitted, [type |-> type, decl |-> decl])
  /\ catalog' = SubSeq(catalog, 1, idx - 1) \o SubSeq(catalog, idx + 1, Len(catalog))
  /\ UNCHANGED <<expression, returned, ENUM_AS_UNION, pc, idx, writes>>

\* One iteration of the for-of loop that appends a declaration.
Append2(type, decl) ==
  /\ typeDefinitions' = typeDefinitions \o decl \o Chars("\n\n")
  /\ emitted' = Append(emitted, [type |-> type, decl |-> decl])
  /\ idx' = idx + 1
  /\ UNCHANGED <<expression, returned, catalog, ENUM_AS_UNION, pc, writes>>

\* One iteration that appends nothing.
Continue ==
  /\ idx' = idx + 1
  /\ UNCHANGED <<expression, returned, catalog, ENUM_AS_UNION, pc, typeDefinitions, emitted, writes>>

InLoop == pc = "walk" /\ idx <= Len(catalog)

\* emitter testing for Interface before RequestInterface.
emitterInterfaceFirst(type) ==
  IF type.name \in skipInterface THEN "continue"
  ELSE IF InstanceOf(type, "StringAlias") THEN "buildStringAlias"
  ELSE IF InstanceOf(type, "NumberAlias") THEN "buildNumberAlias"
  ELSE IF InstanceOf(type, "UnionAlias") THEN "buildUnionAlias"
  ELSE IF InstanceOf(type, "Interface") THEN "buildInterface"
  ELSE IF InstanceOf(type, "RequestInterface") THEN "buildRequestInterface"
  ELSE IF InstanceOf(type, "Enum") THEN "buildEnum"
  ELSE "none"

\* The branch of the if-else chain of the loop body that a type takes.
emitter(type) ==
  IF type.name \in skipInterface THEN "continue"
  ELSE IF InstanceOf(type, "StringAlias") THEN "buildStringAlias"
  ELSE IF InstanceOf(type, "NumberAlias") THEN "buildNumberAlias"
  ELSE IF InstanceOf(type, "UnionAlias") THEN "buildUnionAlias"
  ELSE IF InstanceOf(type, "RequestInterface") THEN "buildRequestInterface"
  ELSE IF InstanceOf(type, "Interface") THEN "buildInterface"
  ELSE IF InstanceOf(type, "Enum") THEN "buildEnum"
  ELSE "none"

SkipExcluded ==
  /\ InLoop
  /\ emitter(catalog[idx]) = "continue"
  /\ Continue

EmitStringAlias ==
  /\ InLoop
  /\ emitter(catalog[idx]) = "buildStringAlias"
  /\ Append2(catalog[idx], buildStringAlias(catalog[idx]))

EmitNumberAlias ==
  /\ InLoop
  /\ emitter(catalog[idx]) = "buildNumberAlias"
  /\ Append2(catalog[idx], buildNumberAlias(catalog[idx]))

EmitUnionAlias ==
  /\ InLoop
  /\ emitter(catalog[idx]) = "buildUnionAlias"
  /\ Append2(catalog[idx], buildUnionAlias(catalog[idx]))

EmitRequestInterface ==
  /\ InLoop
  /\ emitter(catalog[idx]) = "buildRequestInterface"
  /\ Append2(catalog[idx], buildRequestInterface(catalog[idx]))

EmitInterface ==
  /\ InLoop
  /\ emitter(catalog[idx]) = "buildInterface"
  /\ Append2(catalog[idx], buildInterface(catalog[idx]))

EmitEnum ==
  /\ InLoop
  /\ emitter(catalog[idx]) = "buildEnum"
  /\ Append2(catalog[idx], buildEnum(catalog[idx], ENUM_AS_UNION))

\* No branch of the if-else chain matches: the iteration does nothing.
SkipUnmatched ==
  /\ InLoop
  /\ emitter(catalog[idx]) = "none"
  /\ Continue

\* typeDefinitions = typeDefinitions.slice(0, -2), once the loop has ended
Trim ==
  /\ pc = "walk"
  /\ idx > Len(catalog)
  /\ typeDefinitions' = SliceEnd(typeDefinitions, 2)
  /\ pc' = "wrap"
  /\ UNCHANGED <<expression, returned, catalog, ENUM_AS_UNION, idx, emitted, writes>>

\* typeDefinitions += '\n}\n\nexport default T'
Wrap ==
  /\ pc = "wrap"
  /\ typeDefinitions' = typeDefinitions \o Chars("\n}\n\nexport default T")
  /\ pc' = "write"
  /\ UNCHANGED <<expression, returned, catalog, ENUM_AS_UNION, idx, emitted, writes>>

\* fs.writeFileSync(<types.ts>, typeDefinitions)
WriteFile ==
  /\ pc = "write"
  /\ writes' = Append(writes, typeDefinitions)
  /\ pc' = "done"
  /\ UNCHANGED <<expression, returned, catalog, ENUM_AS_UNION, idx, typeDefinitions, emitted>>

Next ==
  \/ SkipExcluded
  \/ EmitStringAlias
  \/ EmitNumberAlias
  \/ EmitUnionAlias
  \/ EmitRequestInterface
  \/ EmitInterface
  \/ EmitEnum
  \/ SkipUnmatched
  \/ Trim
  \/ Wrap
  \/ WriteFile

Spec == Init /\ [][Next]_vars

----------------------------------------------------------------------------
(* unwrapType called on its own *)

\* References whose closedGenerics is absent.
AbsentGenerics ==
  {Type("Missing", Undefined),
   ImplementsReference("Base", Undefined),
   ImplementsReference("DictionaryResponseBase", Undefined)}

\* Every type expression of the walker, and the expressions built on a
\* reference whose closedGenerics is absent.
ResolverInputs ==
  TypeExpressions
    \cup AbsentGenerics
    \cup {ArrayOf(e) : e \in AbsentGenerics}
    \cup {SingleKeyDictionary(e) : e \in AbsentGenerics}
    \cup {Dictionary(tA, e) : e \in AbsentGenerics}
    \cup {UnionOf(<<e, tB>>) : e \in AbsentGenerics}
    \cup {Type("G", Arr(<<e>>)) : e \in AbsentGenerics}
    \cup {ImplementsReference("Base", Arr(<<tA, e>>)) : e \in AbsentGenerics}
    \cup {ImplementsReference("Base", Arr(<<e>>)) : e \in AbsentGenerics}

InitResolve ==
  /\ expression \in ResolverInputs
  /\ returned = [kind |-> "pending"]
  /\ catalog = <<>>
  /\ ENUM_AS_UNION = Undefined
  /\ pc = "resolve"
  /\ idx = 1
  /\ typeDefinitions = <<>>
  /\ emitted = <<>>
  /\ writes = <<>>

\* The call returns its text.
ResolveReturns ==
  /\ returned.kind = "pending"
  /\ ~unwrapTypeThrows(expression)
  /\ returned' = [kind |-> "string", value |-> unwrapType(expression)]
  /\ UNCHANGED <<expression, catalog, ENUM_AS_UNION, pc, idx, typeDefinitions,
                 emitted, writes>>

\* The call ends in an uncaught TypeError.
ResolveThrows ==
  /\ returned.kind = "pending"
  /\ unwrapTypeThrows(expression)
  /\ returned' = [kind |-> "TypeError"]
  /\ UNCHANGED <<expression, catalog, ENUM_AS_UNION, pc, idx, typeDefinitions,
                 emitted, writes>>

NextResolve ==
  \/ ResolveReturns
  \/ ResolveThrows

SpecResolve == InitResolve /\ [][NextResolve]_vars

----------------------------------------------------------------------------
(* Reading the generated text *)

\* The lines of a text, split at every newline.
RECURSIVE SplitLines(_)
SplitLines(text) ==
  LET NL == {i \in 1..Len(text) : text[i] = "\n"} IN
  IF NL = {} THEN <<text>>
  ELSE LET k == CHOOSE i \in NL : \A j \in NL : i <= j
       IN <<SubSeq(text, 1, k - 1)>> \o SplitLines(SubSeq(text, k + 1, Len(text)))

StartsWith(text, prefix) ==
  Len(text) >= Len(prefix) /\ SubSeq(text, 1, Len(prefix)) = prefix

\* The header lines of the declarations of a text: '  export <keyword> ...'
HeaderLines(text) == SelectSeq(SplitLines(text), LAMBDA l : StartsWith(l, Chars("  export ")))

\* The declared name of a header line: the word after the keyword, up to
\* the next blank or '<'.
DeclaredName(header) ==
  LET afterExport == SubSeq(header, Len(Chars("  export ")) + 1, Len(header))
      blanks == {i \in 1..Len(afterExport) : afterExport[i] = " "}
      k == CHOOSE i \in blanks : \A j \in blanks : i <= j
      rest == SubSeq(afterExport, k + 1, Len(afterExport))
      stops == {i \in 1..Len(rest) : rest[i] \in {" ", "<"}} \cup {Len(rest) + 1}
      e == CHOOSE i \in stops : \A j \in stops : i <= j
  IN SubSeq(rest, 1, e - 1)

DeclaredNames(text) ==
  LET h == HeaderLines(text) IN {DeclaredName(h[i]) : i \in 1..Len(h)}

NamespaceOpen == Chars("declare namespace T {\n")

NamespaceClose == Chars("\n}\n\nexport default T")

Separator == Chars("\n\n")

Decls == [j \in 1..Len(emitted) |-> emitted[j].decl]

ExcludedNames == {Chars("ResponseBase"), Chars("DictionaryResponseBase")}

KnownVariants ==
  {"StringAlias", "NumberAlias", "UnionAlias", "Enum", "Interface", "RequestInterface"}

\* An entry that is to yield a declaration.
Emittable(type) == type.name \notin ExcludedNames /\ type.kind \in KnownVariants

\* The declaration an entry yields on its own.
DeclarationOf(type, env) ==
  CASE type.kind = "StringAlias" -> buildStringAlias(type)
    [] type.kind = "NumberAlias" -> buildNumberAlias(type)
    [] type.kind = "UnionAlias" -> buildUnionAlias(type)
    [] type.kind = "Enum" -> buildEnum(type, env)
    [] type.kind = "Interface" -> buildInterface(type)
    [] type.kind = "RequestInterface" -> buildRequestInterface(type)

Visited == SubSeq(catalog, 1, idx - 1)

----------------------------------------------------------------------------
(* Properties *)

\* C1: for every catalog, also an empty one or one of which nothing is
\* emitted, the text written is the line 'declare namespace T {', the
\* declarations joined by one blank line, and the closing of the namespace.
C1_WrittenTextIsWrappedDeclarations ==
  pc = "done" =>
    writes[Len(writes)] = NamespaceOpen \o join(Decls, Separator) \o NamespaceClose

\* C2: the declarations of the output are the image, in catalog order, of
\* the visited entries that are not excluded by name and are of a known
\* variant: one declaration each, the one the entry yields on its own;
\* the other entries add nothing.
C2_OutputIsOrderedImage ==
  LET expected == SelectSeq(Visited, Emittable)
      body == join(Decls, Separator)
  IN /\ Len(emitted) = Len(expected)
     /\ \A j \in 1..Len(emitted) :
          /\ emitted[j].type = expected[j]
          /\ emitted[j].decl = DeclarationOf(expected[j], ENUM_AS_UNION)
     /\ pc = "walk" =>
          typeDefinitions =
            NamespaceOpen \o join([j \in 1..Len(Decls) |-> Decls[j] \o Separator], <<>>)
     /\ pc = "done" =>
          /\ Visited = catalog
          /\ endsWith(writes[1], body \o NamespaceClose)
          /\ Len(writes[1]) <= Len(NamespaceOpen) + Len(body) + Len(NamespaceClose)
          /\ Len(HeaderLines(writes[1])) = Len(emitted)

C2_Witness ==
  /\ pc = "done"
  /\ Len(catalog) = 3
  /\ Len(emitted) = 2
  /\ catalog[2].kind = "TypeDeclaration"
  /\ emitted[1].type # emitted[2].type

\* C3: in every state of the walk and in the written output, no declaration
\* has ResponseBase or DictionaryResponseBase as its declared name.
C3_ExcludedNeverDeclared ==
  /\ DeclaredNames(typeDefinitions) \cap ExcludedNames = {}
  /\ \A w \in 1..Len(writes) : DeclaredNames(writes[w]) \cap ExcludedNames = {}
  /\ \A j \in 1..Len(emitted) : emitted[j].type.name \notin ExcludedNames

C3_Witness ==
  /\ pc = "done"
  /\ Len(catalog) = 3
  /\ catalog[1].name = Chars("DictionaryResponseBase")
  /\ catalog[1].kind = "Interface"
  /\ catalog[3].name = Chars("ResponseBase")
  /\ Len(emitted) = 1

\* C4: the file is written once, after every entry has been visited and the
\* buffer has been trimmed and wrapped; nothing is written before, nothing
\* after, and the script does not stop before the write.
C4_SingleWriteAfterWalk ==
  /\ Len(writes) <= 1
  /\ pc # "done" => writes = <<>>
  /\ pc = "done" =>
       /\ Len(writes) = 1
       /\ idx = Len(catalog) + 1
       /\ writes[1] = typeDefinitions
       /\ endsWith(writes[1], NamespaceClose)
  /\ pc = "done" \/ ENABLED Next

C4_Witness ==
  /\ pc = "done"
  /\ Len(writes) = 1
  /\ Len(catalog) = 3
  /\ Len(emitted) = 3

\* The lines of a block declaration between its header line and its
\* closing brace.
MemberLines(decl) ==
  LET lines == SplitLines(decl)
      h == CHOOSE i \in 1..Len(lines) :
             /\ StartsWith(lines[i], Chars("  export "))
             /\ \A k \in 1..(i - 1) : ~StartsWith(lines[k], Chars("  export "))
  IN SubSeq(lines, h + 1, Len(lines) - 1)

Defined(properties) == SelectSeq(properties, LAMBDA p : p.type # Undefined)

\* The text of the member line of a property, without its newline.
MemberText(indent, p) ==
  indent \o cleanPropertyName(p.name) \o (IF p.nullable THEN <<"?">> ELSE <<>>)
    \o <<":", " ">> \o unwrapType(p.type)

MemberTexts(indent, properties) ==
  [i \in 1..Len(Defined(properties)) |-> MemberText(indent, Defined(properties)[i])]

Indent4 == Chars("    ")

Indent6 == Chars("      ")

\* C5: an Interface with k properties of defined type is emitted with
\* exactly k member lines between header and closing brace, the i-th line
\* for the i-th property of defined type; properties of undefined type
\* leave no line.
C5_InterfaceMemberLines ==
  \A j \in 1..Len(emitted) :
    emitted[j].type.kind = "Interface" =>
      LET members == MemberLines(emitted[j].decl)
          defined == Defined(emitted[j].type.properties)
      IN /\ Len(members) = Len(defined)
         /\ members = MemberTexts(Indent4, emitted[j].type.properties)
         /\ endsWith(emitted[j].decl, Chars("\n  }"))

C5_Witness ==
  /\ pc = "done"
  /\ \E j \in 1..Len(emitted) :
       /\ emitted[j].type.kind = "Interface"
       /\ Len(emitted[j].type.properties) = 2
       /\ emitted[j].type.properties[1].type = Undefined
       /\ emitted[j].type.properties[2].type # Undefined
       /\ Len(MemberLines(emitted[j].decl)) = 1

\* The name of the type an ancestor refers to.
AncestorName(e) == IF e.kind = "ImplementsReference" THEN e.type.name ELSE e.name

AncestorList(inherits) ==
  join([i \in 1..Len(inherits) |-> unwrapType(inherits[i])], Chars(", "))

IsInterfaceLike(type) == type.kind \in {"Interface", "RequestInterface"}

\* The header line of an interface with the given inheritance clause.
InterfaceHeader(type, clause) ==
  Chars("  export interface ") \o type.name \o buildGeneric(type) \o clause \o Chars(" {")

\* C6 as claimed: the clause is dropped when the only ancestor is an
\* excluded base name (ResponseBase or DictionaryResponseBase), and is
\* rendered with every ancestor otherwise.
C6_ClauseDroppedForExcludedAncestor ==
  \A j \in 1..Len(emitted) :
    IsInterfaceLike(emitted[j].type) =>
      LET t == emitted[j].type
          header == HeaderLines(emitted[j].decl)[1]
      IN IF IsArray(t.inherits) /\ Len(t.inherits.items) > 0
         THEN IF Len(t.inherits.items) = 1
                 /\ AncestorName(t.inherits.items[1]) \in ExcludedNames
              THEN header = InterfaceHeader(t, <<>>)
              ELSE header = InterfaceHeader(t,
                              Chars(" extends ") \o AncestorList(t.inherits.items))
         ELSE header = InterfaceHeader(t, <<>>)

\* C6 as amended: the clause is dropped when inherits has exactly one entry
\* and inheritsFromUnresolved has the key ResponseBase; every other
\* non-empty inherits list, a sole DictionaryResponseBase included, is
\* rendered with every ancestor in listed order; an empty or absent list
\* renders no clause.
C6_ClauseDroppedForSoleResponseBase ==
  \A j \in 1..Len(emitted) :
    IsInterfaceLike(emitted[j].type) =>
      LET t == emitted[j].type
          header == HeaderLines(emitted[j].decl)[1]
      IN IF IsArray(t.inherits) /\ Len(t.inherits.items) > 0
         THEN IF Len(t.inherits.items) = 1
                 /\ "ResponseBase" \in t.inheritsFromUnresolved
              THEN header = InterfaceHeader(t, <<>>)
              ELSE header = InterfaceHeader(t,
                              Chars(" extends ") \o AncestorList(t.inherits.items))
         ELSE header = InterfaceHeader(t, <<>>)

C6_Witness ==
  /\ pc = "done"
  /\ \E j \in 1..Len(emitted) :
       /\ emitted[j].type.kind = "Interface"
       /\ IsArray(emitted[j].type.inherits)
       /\ Len(emitted[j].type.inherits.items) = 1
       /\ AncestorName(emitted[j].type.inherits.items[1]) = Chars("ResponseBase")
       /\ HeaderLines(emitted[j].decl)[1] = Chars("  export interface Box<T> {")

\* C7: a declaration of an entry that is not an Enum is the same text under
\* every value of the toggle, at the same position; with the toggle absent
\* every Enum is emitted as an enum block.
C7_EnumModePure ==
  \A j \in 1..Len(emitted) :
    LET t == emitted[j].type IN
    /\ t.kind # "Enum" =>
         \A e \in EnvValues :
           /\ emitter(t) \notin {"continue", "none"}
           /\ DeclarationOf(t, e) = emitted[j].decl
    /\ (t.kind = "Enum" /\ ENUM_AS_UNION = Undefined) =>
         /\ StartsWith(emitted[j].decl, Chars("  export enum ") \o t.name \o Chars(" {\n"))
         /\ endsWith(emitted[j].decl, Chars("  }"))
         /\ Len(MemberLines(emitted[j].decl)) = Len(t.members)

C7_Witness ==
  /\ pc = "done"
  /\ ENUM_AS_UNION = Undefined
  /\ Len(emitted) = 3
  /\ emitted[1].type.kind = "Interface"
  /\ emitted[2].type.kind = "Enum"
  /\ emitted[3].type.kind = "RequestInterface"

\* The alternation of the representations of the members, each in double
\* quotes unless it is exactly true or false.
RECURSIVE LiteralUnion(_)
LiteralUnion(members) ==
  IF Len(members) = 0 THEN <<>>
  ELSE LET r == Head(members).stringRepresentation
           lit == IF r \in {Chars("true"), Chars("false")}
                  THEN r ELSE <<"\"">> \o r \o <<"\"">>
       IN IF Len(members) = 1 THEN lit
          ELSE lit \o <<" ", "|", " ">> \o LiteralUnion(Tail(members))

\* C8: in literal-union mode every Enum is the one-line alias
\* 'export type <name> = <alts>' of its members' representations in member
\* order, quoted unless exactly true or false.
C8_LiteralUnionAlias ==
  Truthy(ENUM_AS_UNION) =>
    \A j \in 1..Len(emitted) :
      emitted[j].type.kind = "Enum" =>
        /\ emitted[j].decl =
             Chars("  export type ") \o emitted[j].type.name \o Chars(" = ")
               \o LiteralUnion(emitted[j].type.members)
        /\ ~includes(emitted[j].decl, "\n")

C8_Witness ==
  /\ pc = "done"
  /\ Truthy(ENUM_AS_UNION)
  /\ \E j \in 1..Len(emitted) :
       /\ emitted[j].type.kind = "Enum"
       /\ Len(emitted[j].type.members) = 2
       /\ emitted[j].type.members[1].stringRepresentation = Chars("true")
       /\ emitted[j].type.members[2].stringRepresentation = Chars("TRUE")

\* A name that is to be quoted: it holds a period or a hyphen, or begins
\* with a digit or with a character that is no letter, digit or underscore.
ShouldQuote(name) ==
  \/ \E i \in 1..Len(name) : name[i] \in {".", "-"}
  \/ /\ Len(name) > 0
     /\ \/ name[1] \in Digits
        \/ name[1] \notin (Letters \cup Digits \cup {"_"})

MemberKey(name) ==
  IF ShouldQuote(name) THEN <<"\"">> \o name \o <<"\"">> ELSE name

PropertyKeys(indent, properties) ==
  [i \in 1..Len(Defined(properties)) |->
     indent \o MemberKey(Defined(properties)[i].name)
       \o (IF Defined(properties)[i].nullable THEN <<"?">> ELSE <<>>) \o <<":", " ">>]

OptionalKeys(indent, list) ==
  IF IsArray(list) THEN PropertyKeys(indent, list.items) ELSE <<>>

\* The beginnings of the member lines of a declaration, in order.
ExpectedKeys(type, env) ==
  IF type.kind = "Interface" THEN PropertyKeys(Indent4, type.properties)
  ELSE IF type.kind = "RequestInterface" THEN
    OptionalKeys(Indent4, type.path) \o OptionalKeys(Indent4, type.queryParameters)
      \o (IF IsArray(type.body)
          THEN <<Chars("    body?: {")>> \o PropertyKeys(Indent6, type.body.items)
                 \o <<Chars("    }")>>
          ELSE IF type.body # Undefined THEN <<Chars("    body?: ")>> ELSE <<>>)
  ELSE IF type.kind = "Enum" /\ ~Truthy(env) THEN
    [i \in 1..Len(type.members) |->
       Indent4 \o MemberKey(type.members[i].name) \o <<" ", "=", " ">>]
  ELSE <<>>

HasMemberLines(type, env) ==
  \/ IsInterfaceLike(type)
  \/ type.kind = "Enum" /\ ~Truthy(env)

\* C9: a member name is emitted in double quotes exactly if it is to be
\* quoted, and unchanged otherwise, in interface properties, in the path,
\* query and body properties of a request and in the members of an enum
\* block; a.b, a-b and 1x are quoted and abc is bare.
C9_NameSanitization ==
  /\ cleanPropertyName(Chars("a.b")) = Chars("\"a.b\"")
  /\ cleanPropertyName(Chars("a-b")) = Chars("\"a-b\"")
  /\ cleanPropertyName(Chars("1x")) = Chars("\"1x\"")
  /\ cleanPropertyName(Chars("abc")) = Chars("abc")
  /\ \A j \in 1..Len(emitted) :
       HasMemberLines(emitted[j].type, ENUM_AS_UNION) =>
         LET members == MemberLines(emitted[j].decl)
             keys == ExpectedKeys(emitted[j].type, ENUM_AS_UNION)
         IN /\ Len(members) = Len(keys)
            /\ \A i \in 1..Len(keys) : StartsWith(members[i], keys[i])

C9_Witness ==
  /\ pc = "done"
  /\ \E j \in 1..Len(emitted) :
       /\ emitted[j].type.kind = "RequestInterface"
       /\ IsArray(emitted[j].type.body)
       /\ Len(emitted[j].type.body.items) = 1
       /\ emitted[j].type.body.items[1].name = <<"$", "a">>
       /\ MemberLines(emitted[j].decl)[4] = Chars("      \"$a\"?: A")

\* C10: the member lines of a request interface are the path lines, then
\* the query lines, then the body: a nested optional object 'body?' whose
\* inner lines are the body properties of defined type one level deeper,
\* or one flat line 'body?: <type>', or nothing when body is undefined.
C10_RequestMemberOrder ==
  \A j \in 1..Len(emitted) :
    emitted[j].type.kind = "RequestInterface" =>
      LET t == emitted[j].type
          pathLines == IF IsArray(t.path) THEN MemberTexts(Indent4, t.path.items) ELSE <<>>
          queryLines == IF IsArray(t.queryParameters)
                        THEN MemberTexts(Indent4, t.queryParameters.items) ELSE <<>>
          bodyLines == IF t.body = Undefined THEN <<>>
                       ELSE IF IsArray(t.body)
                       THEN <<Chars("    body?: {")>> \o MemberTexts(Indent6, t.body.items)
                              \o <<Chars("    }")>>
                       ELSE <<Chars("    body?: ") \o unwrapType(t.body)>>
      IN MemberLines(emitted[j].decl) = pathLines \o queryLines \o bodyLines

C10_Witness ==
  /\ pc = "done"
  /\ \E j \in 1..Len(emitted) :
       /\ emitted[j].type.kind = "RequestInterface"
       /\ IsArray(emitted[j].type.path) /\ Len(Defined(emitted[j].type.path.items)) = 1
       /\ IsArray(emitted[j].type.queryParameters)
       /\ Len(Defined(emitted[j].type.queryParameters.items)) = 2
       /\ IsArray(emitted[j].type.body) /\ Len(emitted[j].type.body.items) = 2
       /\ Len(Defined(emitted[j].type.body.items)) = 1
       /\ Len(MemberLines(emitted[j].decl)) = 6

\* The lines of a declaration before its header line.
Annotation(decl) ==
  LET lines == SplitLines(decl)
      h == CHOOSE i \in 1..Len(lines) :
             /\ StartsWith(lines[i], Chars("  export "))
             /\ \A k \in 1..(i - 1) : ~StartsWith(lines[k], Chars("  export "))
  IN SubSeq(lines, 1, h - 1)

StabilityComment(level) ==
  <<Chars("  /**"), Chars("   * @description Stability: ") \o level, Chars("   */")>>

\* The annotation a name calls for.
AnnotationFor(name) ==
  IF name \in stableApis THEN StabilityComment(Chars("STABLE"))
  ELSE IF endsWith(name, Chars("Request")) \/ endsWith(name, Chars("Response"))
  THEN StabilityComment(Chars("UNSTABLE"))
  ELSE <<>>

\* C11 as claimed: every emitted declaration, of any kind, carries before
\* its header line the annotation its name calls for.
C11_AnnotationByNameForEveryKind ==
  \A j \in 1..Len(emitted) :
    Annotation(emitted[j].decl) = AnnotationFor(emitted[j].type.name)

\* C11 as amended: the declarations of Interfaces and RequestInterfaces
\* carry the annotation their name calls for, never both comments; the
\* declarations of aliases and enums carry none, whatever their name.
C11_AnnotationByNameForInterfaces ==
  \A j \in 1..Len(emitted) :
    IF IsInterfaceLike(emitted[j].type)
    THEN Annotation(emitted[j].decl) = AnnotationFor(emitted[j].type.name)
    ELSE Annotation(emitted[j].decl) = <<>>

C11_Witness ==
  /\ pc = "done"
  /\ Len(emitted) = 1
  /\ emitted[1].type.kind = "Interface"
  /\ emitted[1].type.name = Chars("IndexResponse")
  /\ Annotation(emitted[1].decl) = StabilityComment(Chars("STABLE"))

\* C12: every call of unwrapType returns a string; none ends in an error.
C12_ResolverTotal ==
  returned.kind = "pending" \/ returned.kind = "string"

\* The text of a run as a function of the catalog and the configuration.
RunOutput(types, env) ==
  LET wanted == SelectSeq(types, Emittable)
      parts == [j \in 1..Len(wanted) |-> DeclarationOf(wanted[j], env) \o Separator]
  IN SliceEnd(NamespaceOpen \o join(parts, <<>>), 2) \o NamespaceClose

\* C13: the text a run writes is a function of the catalog and of the
\* configuration alone, so two runs over the same catalog and configuration
\* write the same text; no step of a run changes the catalog or the
\* configuration.
C13_RunIsFunctionOfInputs ==
  /\ [](pc = "done" => writes = <<RunOutput(catalog, ENUM_AS_UNION)>>)
  /\ [][catalog' = catalog /\ ENUM_AS_UNION' = ENUM_AS_UNION]_vars

C13_Witness ==
  /\ pc = "done"
  /\ Len(catalog) = MaxCatalog
  /\ Len(emitted) = 2
  /\ catalog[1].kind = "Enum"
  /\ Truthy(ENUM_AS_UNION)
  /\ writes = <<RunOutput(catalog, ENUM_AS_UNION)>>

\* The number of closed generics of a reference, none when the list is absent.
Arity(type) ==
  IF IsArray(type.closedGenerics) THEN Len(type.closedGenerics.items) ELSE 0

\* The renderings of the closed generics in listed order, joined by ', '.
GenericArguments(type) ==
  join([i \in 1..Arity(type) |-> unwrapType(type.closedGenerics.items[i])],
       Chars(", "))

Parameterized(name, type) ==
  name \o Chars("<") \o GenericArguments(type) \o Chars(">")

\* C14: a returned reference is rendered by its arity: the
\* DictionaryResponseBase sentinel as Record<...> over its closed generics;
\* another ImplementsReference as Name<...> with more than one closed
\* generic and as the bare name with none or one; a bare reference as
\* Name<...> with one or more closed generics and as the bare name with
\* none or with no list.
C14_ReferenceRenderingByArity ==
  returned.kind = "string" =>
    CASE expression.kind = "ImplementsReference"
           /\ expression.type.name = Chars("DictionaryResponseBase") ->
           returned.value = Parameterized(Chars("Record"), expression)
      [] expression.kind = "ImplementsReference"
           /\ expression.type.name # Chars("DictionaryResponseBase") ->
           returned.value =
             IF Arity(expression) > 1
             THEN Parameterized(expression.type.name, expression)
             ELSE expression.type.name
      [] expression.kind = "Type" ->
           returned.value =
             IF Arity(expression) > 0
             THEN Parameterized(expression.name, expression)
             ELSE expression.name
      [] OTHER -> TRUE

C14_Witness ==
  /\ expression = ImplementsReference("Base", Arr(<<tA>>))
  /\ returned = [kind |-> "string", value |-> Chars("Base")]

\* A union whose last alternative is the sequence of the last alternative
\* of the given union.
SequenceOfLast(union) ==
  UnionOf(SubSeq(union.items, 1, Len(union.items) - 1)
            \o <<ArrayOf(union.items[Len(union.items)])>>)

\* C15: the rendering of a composite keeps its structure: the sequence of a
\* mapping is 'Record<K, V>[]', the items of a union are rendered in listed
\* order joined by ' | ', and the sequence of a union is not rendered by
\* the text of the union whose last alternative is a sequence.
C15_CompositeStructurePreserved ==
  returned.kind = "string" =>
    /\ expression = ArrayOf(Dictionary(tA, tB)) =>
         returned.value = Chars("Record<A, B>[]")
    /\ expression.kind = "UnionOf" =>
         returned.value =
           join([i \in 1..Len(expression.items) |-> unwrapType(expression.items[i])],
                Chars(" | "))
    /\ (expression.kind = "ArrayOf" /\ expression.of.kind = "UnionOf") =>
         returned.value # unwrapType(SequenceOfLast(expression.of))

\* The visited entries whose name is not excluded.
VisitedIncluded ==
  {i \in 1..Len(Visited) : Visited[i].name \notin ExcludedNames}

\* C16: a RequestInterface is declared by the request emitter, not by the
\* emitter of plain interfaces; the visited entries yield at most one
\* declaration each and those of an excluded name none, of whatever
\* variant they are.
C16_DispatchPrecedence ==
  /\ \A j \in 1..Len(emitted) :
       /\ emitted[j].type.name \notin ExcludedNames
       /\ emitted[j].type.kind = "RequestInterface" =>
            /\ emitted[j].decl = buildRequestInterface(emitted[j].type)
            /\ MemberLines(emitted[j].decl) # <<>> =>
                 emitted[j].decl # buildInterface(emitted[j].type)
  /\ Len(emitted) <= Cardinality(VisitedIncluded)

C16_Witness ==
  /\ pc = "done"
  /\ Len(catalog) = MaxCatalog
  /\ Len(emitted) = 1
  /\ emitted[1].type.kind = "RequestInterface"
  /\ MemberLines(emitted[1].decl) # <<>>
  /\ \E i \in 1..Len(catalog) :
       catalog[i].kind = "Interface" /\ catalog[i].name \in ExcludedNames
  /\ \E i \in 1..Len(catalog) :
       catalog[i].kind = "StringAlias" /\ catalog[i].name \in ExcludedNames

====
